---- MODULE Spec2Model ----
(***************************************************************************)
(* Model of the EIRC API client (custom_components/eirc/api.py): the       *)
(* session state, the retry executor _retry_api_call, authenticate() and   *)
(* the domain operations built on them.                                    *)
(*                                                                         *)
(* Every coroutine invocation is a frame on the task's call stack.  A      *)
(* frame that finishes is popped and leaves its outcome in ret[t], where   *)
(* the frame below picks it up.  Absent values (Python None, a missing     *)
(* JSON key) are 0; cookies, tokens and transaction ids are positive.      *)
(***************************************************************************)
EXTENDS Integers, Sequences, FiniteSets, TLC

\* ---- program constants -------------------------------------------------
MAX_RETRIES == 5
INITIAL_BACKOFF == 4
BACKOFF_MULTIPLIER == 2

\* ---- bounds of the model -----------------------------------------------
\* number of auth tokens a strict server issues
MaxTok == 3
\* deepest call stack (frames) a task may build; the 401 branch recurses
MaxDepth == 4
\* the attempts of one executor are counted up to this value
MaxCount == 6
\* the requests of one call are counted up to this value
MaxSeen == 2
\* responses per call that make an executor go on (transient status or 401)
MaxFaults == 5
\* the same, where the call before the current one is kept
MaxFlowFaults == 1
\* the same, for the calls of one update of the coordinator
MaxUpdateFaults == 2
\* deepest call stack of a call of the coordinator: a data request, its
\* recovery and the recovery of that recovery's login request
MaxUpdateDepth == 5
\* the same, for a domain operation whose re-login uses up its own retries
MaxReloginFaults == 6
\* deepest call stack of such an operation
MaxReloginDepth == 5
\* longest list of entries in a response of the balance endpoint
MaxEntries == 3

None == 0
Tasks == {1}
Cookies == {11}
Tokens == {1, 2}
Verifs == {21}
TransIds == {1, 2}
MethodSets == {{"EMAIL"}, {"SMS"}, {"EMAIL", "SMS"}}

\* HTTP statuses the server answers with; 0 stands for a request that ends
\* in a transport error instead of a response.
TransportError == 0
DomainStatuses == {0, 200, 204, 400, 401, 403, 424, 429, 500, 503}
LoginStatuses == {0, 400, 401, 429, 500, 503}
GetApis == {"accounts", "meters", "balance"}
DomainApis == GetApis \cup {"send"}

VARIABLES
    session_cookie,   \* EIRCApiClient._session_cookie
    token_auth,       \* EIRCApiClient._token_auth
    token_verify,     \* EIRCApiClient._token_verify
    transaction_id,   \* EIRCApiClient._transaction_id
    methods,          \* EIRCApiClient._methods
    srvStrict,        \* the server validates tokens and otherwise accepts
    srvToken,         \* the auth token the server issued last
    stack,            \* per task: the frames of the coroutines in progress
    ret,              \* per task: outcome of the frame popped last
    req,              \* per task: the request sent last
    resp,             \* per task: the response received last
    op,               \* per task: the operation called last
    entry,            \* per task: session state when that operation was called
    nreq,             \* per task: requests sent by that operation so far
    after401,         \* per task: bookkeeping of the last 401 recovery
    faults,           \* per task: responses so far that made an executor go on
    prev,             \* per task: the call before the one in op, and how it ended
    data,             \* get_account_balance: the entries the executor returned
    total_balance,    \* get_account_balance: the value it returns
    config_entry,     \* the session fields of config_entry.data
    handler           \* the coordinator update, service call or flow in progress

client == <<session_cookie, token_auth, token_verify, transaction_id, methods>>
server == <<srvStrict, srvToken>>
balance_vars == <<data, total_balance>>
host_vars == <<config_entry, handler>>
vars == <<session_cookie, token_auth, token_verify, transaction_id, methods,
          srvStrict, srvToken, stack, ret, req, resp, op, entry, nreq, after401,
          faults, prev, data, total_balance, config_entry, handler>>

\* ---- values ------------------------------------------------------------
\* request headers: a field is 0 when the header is not sent
Hdr(c, a, v) == [cookie |-> c, auth |-> a, verify |-> v]
NoHdr == Hdr(None, None, None)

\* outcome of a finished frame
NoRet == [kind |-> "none", type |-> "", status |-> 0, tid |-> 0, methods |-> {}]
Ok == [kind |-> "ok", type |-> "", status |-> 0, tid |-> 0, methods |-> {}]
Exc(type) == [kind |-> "exc", type |-> type, status |-> 0, tid |-> 0, methods |-> {}]
ClientResponseError(status) == [Exc("ClientResponseError") EXCEPT !.status = status]
TwoFactorAuthRequired(tid, ms) ==
    [Exc("TwoFactorAuthRequired") EXCEPT !.tid = tid, !.methods = ms]

\* trans: the transient responses an executor has received, sleeps: the
\* sleeps it has finished
Frame(fn, pc, api, hdr) ==
    [fn |-> fn, pc |-> pc, api |-> api, retries |-> 0,
     backoff |-> INITIAL_BACKOFF, att |-> 0, hdr |-> hdr,
     trans |-> 0, sleeps |-> 0]

NoReq == [ep |-> "", hdr |-> NoHdr, re |-> FALSE, pending |-> FALSE]
NoResp == [ep |-> "", status |-> 0, auth |-> 0, verified |-> 0, tid |-> 0,
           types |-> {}, body |-> "", cookies |-> "", a0 |-> 0, v0 |-> 0,
           re |-> FALSE]
No401 == [seen |-> FALSE, logins |-> 0, backoff |-> 0]
Session == Hdr(session_cookie, token_auth, token_verify)

\* a finished call: the operation, its outcome, the session it started from
NoCall == [op |-> "", ret |-> NoRet, entry |-> NoHdr]

\* the session fields of config_entry.data; saved: CONF_SESSION_COOKIE in data
Entry(c, a, v) == [saved |-> TRUE, cookie |-> c, auth |-> a, verify |-> v]
NoEntry == [saved |-> FALSE, cookie |-> None, auth |-> None, verify |-> None]

\* an account of the accounts response
Account(id, c) == [id |-> id, confirmed |-> c]
AccountLists ==
    {<<>>} \cup {<<Account(1, c)>> : c \in BOOLEAN}
           \cup {<<Account(1, c), Account(2, d)>> : c \in BOOLEAN, d \in BOOLEAN}

\* the meter of the entity in a meters response: found, and per scale the
\* previousReading of its indication (NoReading: no indication with both
\* meterScaleId and previousReading)
ScaleIds == {1, 2}
NoReading == -1
NoMeter == [found |-> FALSE, previous |-> [s \in ScaleIds |-> NoReading]]
MeterInfos ==
    {NoMeter} \cup {[found |-> TRUE, previous |-> p] : p \in [ScaleIds -> {NoReading, 10}]}

\* call.data[ATTR_READINGS]
Reading(s, v) == [scale_id |-> s, value |-> v]
Readings == {Reading(s, v) : s \in ScaleIds, v \in {5, 10}}
ReadingBatches == {<<r>> : r \in Readings} \cup {<<r, q>> : r \in Readings, q \in Readings}

\* the handler in progress and its locals; fetched: the accounts a fetch
\* was begun for, returned: those whose two fetches both returned; source:
\* context["source"] of a flow, authed: what authenticated its client last,
\* listed: its accounts have been fetched; tid: self._transaction_id of a
\* flow, emails: its calls of twofa_send_email, email_tid: the transaction
\* of the last one, codes: its calls of twofa_authentication (counted up
\* to MaxSeen), code_tid: the transaction of the last one, errors: the
\* error its form is shown with
NoHandler ==
    [kind |-> "", pc |-> "idle", out |-> "", s0 |-> NoHdr,
     accounts |-> <<>>, i |-> 0, fetched |-> {}, returned |-> {},
     processed |-> {}, failed |-> {},
     meter |-> NoMeter, readings |-> <<>>,
     source |-> "", authed |-> "", listed |-> FALSE,
     tid |-> None, emails |-> 0, email_tid |-> None,
     codes |-> 0, code_tid |-> None, errors |-> ""]

Inc(n) == IF n < MaxCount THEN n + 1 ELSE n
Seen(n) == IF n < MaxSeen THEN n + 1 ELSE n

Top(t) == stack[t][Len(stack[t])]
Pop(t) == SubSeq(stack[t], 1, Len(stack[t]) - 1)
SetTop(t, f) == [stack[t] EXCEPT ![Len(stack[t])] = f]
Idle(t) == stack[t] = <<>>

\* ---- pure parts of the client ------------------------------------------
\* headers built whether or not there is a cookie
CookieNeverMissing(c) == FALSE

\* _craft_headers: if not self._session_cookie
CookieMissing(c) == c = None

\* headers built without the Auth-Verification header
CraftHeadersNoVerification == Hdr(session_cookie, token_auth, None)

\* _craft_headers, after its cookie check
CraftHeaders == Hdr(session_cookie, token_auth, token_verify)

\* an early return that does not look at the verify token
HasSessionAuthOnly(c, a, v) == a # None /\ c # None

\* the early return taken on the wrong state of the verify token
HasSessionNoVerify(c, a, v) == a # None /\ v = None /\ c # None

\* authenticate(): the test of its early return
HasSession(c, a, v) == a # None /\ v # None /\ c # None

\* response.raise_for_status()
RaisesForStatus(status) == status >= 400

\* an executor that sleeps and retries on every error status but 401
ClassifyAllTransient(status) ==
    IF status = 401 THEN "reauth" ELSE "backoff"

\* the except ClientResponseError branch of _retry_api_call
Classify(status) ==
    IF status \in {429, 500, 503} THEN "backoff"
    ELSE IF status = 424 THEN "raise"
    ELSE IF status = 401 THEN "reauth"
    ELSE "raise"

\* outcome of one api_call: ok, an HTTP error (ClientResponseError) or
\* another exception
OutOk == [kind |-> "ok", exc |-> NoRet]
OutHttp(status) == [kind |-> "http", exc |-> ClientResponseError(status)]
OutExc(e) == [kind |-> "exc", exc |-> e]

\* a data request that reports a transport error as status 503
PerformGetTransportAsStatus(r) ==
    IF r.status = TransportError THEN OutHttp(503)
    ELSE IF RaisesForStatus(r.status) THEN OutHttp(r.status)
    ELSE IF r.body # "json" THEN OutExc(Exc("ParseError"))
    ELSE OutOk

\* _perform_get_accounts, _perform_get_account_balance, _perform_get_meters_info
PerformGet(r) ==
    IF r.status = TransportError THEN OutExc(Exc("TransportError"))
    ELSE IF RaisesForStatus(r.status) THEN OutHttp(r.status)
    ELSE IF r.body # "json" THEN OutExc(Exc("ParseError"))
    ELSE OutOk

\* _perform_send_reading
PerformSendReading(r) ==
    IF r.status = TransportError THEN OutExc(Exc("TransportError"))
    ELSE IF r.status # 200 THEN OutHttp(r.status)
    ELSE OutOk

\* _perform_authentication without its test for the EMAIL method
PerformAuthenticationAnyMethod(r) ==
    IF r.status = TransportError THEN OutExc(Exc("TransportError"))
    ELSE IF r.status # 424 /\ RaisesForStatus(r.status) THEN OutHttp(r.status)
    ELSE IF r.body # "json" THEN OutExc(Exc("ParseError"))
    ELSE IF r.status = 424 THEN
        IF r.tid = None THEN OutExc(Exc("RuntimeError"))
        ELSE OutExc(TwoFactorAuthRequired(r.tid, r.types))
    ELSE IF r.auth = None THEN OutExc(Exc("KeyError"))
    ELSE OutOk

\* _perform_authentication, up to the assignment of the token
PerformAuthentication(r) ==
    IF r.status = TransportError THEN OutExc(Exc("TransportError"))
    ELSE IF r.status # 424 /\ RaisesForStatus(r.status) THEN OutHttp(r.status)
    ELSE IF r.body # "json" THEN OutExc(Exc("ParseError"))
    ELSE IF r.status = 424 THEN
        IF r.tid = None THEN OutExc(Exc("RuntimeError"))
        ELSE IF "EMAIL" \notin r.types THEN OutExc(Exc("RuntimeError"))
        ELSE OutExc(TwoFactorAuthRequired(r.tid, r.types))
    ELSE IF r.auth = None THEN OutExc(Exc("KeyError"))
    ELSE OutOk

Perform(api, r) ==
    IF api = "login" THEN PerformAuthentication(r)
    ELSE IF api = "send" THEN PerformSendReading(r)
    ELSE PerformGet(r)

\* ---- the server --------------------------------------------------------
Resp(status, auth, tid, types) ==
    [status |-> status, auth |-> auth, verified |-> 0, tid |-> tid, types |-> types,
     body |-> "json"]

\* a response whose body is not JSON
Garbage(status) == [Resp(status, 0, 0, {}) EXCEPT !.body = "garbage"]

\* A strict server accepts a domain request exactly when it carries the
\* token issued last (srvToken); any other server may answer anything.
DomainResponses(h) ==
    IF srvStrict
    THEN {Resp(IF srvToken # None /\ h.auth = srvToken THEN 200 ELSE 401, 0, 0, {})}
    ELSE {Resp(s, 0, 0, {}) : s \in DomainStatuses} \cup {Garbage(200)}

\* the transaction ids of the 424 answers: a second one is told apart
\* where a config flow keeps its own copy of the id
IssuedIds == IF handler.kind = "flow" THEN TransIds ELSE {1}

\* A strict server answers a login with a token it never issued before.
LoginResponses ==
    IF srvStrict
    THEN IF srvToken < MaxTok THEN {Resp(200, srvToken + 1, 0, {})} ELSE {}
    ELSE {Resp(200, a, 0, {}) : a \in {None} \cup Tokens}
         \cup {Resp(424, 0, tid, ms) : tid \in IssuedIds, ms \in MethodSets}
         \cup {Resp(424, 0, None, {"EMAIL"})}
         \cup {Resp(s, 0, 0, {}) : s \in LoginStatuses}
         \cup {Garbage(200)}

Responses(api, h) == IF api = "login" THEN LoginResponses ELSE DomainResponses(h)

VerifyResponses ==
    {[status |-> 200, auth |-> a, verified |-> v, tid |-> 0, types |-> {},
      body |-> "json"] :
        a \in {None} \cup Tokens, v \in {None} \cup Verifs}
    \cup {Resp(s, 0, 0, {}) : s \in {0, 400, 401, 500}}

\* the answers to the request for a verification email
EmailResponses == {Resp(s, 0, 0, {}) : s \in {0, 200, 400, 401, 500}}

\* the answers of the cookie endpoint: no response, a response without
\* cookies, one with cookies of other names only, one with session-cookie
CookieResponses ==
    {[kind |-> k, value |-> 0] : k \in {"error", "empty"}}
    \cup {[kind |-> k, value |-> c] : k \in {"other", "session"}, c \in Cookies}

\* ---- get_account_balance: the sum over the entries ----------------------
\* values of charge.accrued, in kopecks
Amounts == {-25, 0, 25, 50, 100}

\* an entry of the response: the checked key holds true or false or is
\* missing; charge.accrued is a number or is missing
Entries ==
    {[checked |-> c, has_accrued |-> TRUE, accrued |-> a] :
        c \in {"true", "false", "missing"}, a \in Amounts}
    \cup {[checked |-> c, has_accrued |-> FALSE, accrued |-> 0] :
        c \in {"true", "false", "missing"}}

BalanceLists == UNION {[1..n -> Entries] : n \in 0..MaxEntries}

NoBalance == [kind |-> "none", type |-> "", value |-> 0]

\* item.get("checked", False)
Checked(item) == item.checked = "true"

\* sum(): the items added one after the other, from 0
RECURSIVE SumFrom(_, _)
SumFrom(acc, items) ==
    IF items = <<>> THEN acc ELSE SumFrom(acc + Head(items), Tail(items))

\* a sum that takes every entry
TotalBalanceUnfiltered(d) ==
    IF \E i \in DOMAIN d : ~d[i].has_accrued
    THEN [kind |-> "exc", type |-> "KeyError", value |-> 0]
    ELSE [kind |-> "ok", type |-> "",
          value |-> SumFrom(0, [i \in DOMAIN d |-> d[i].accrued])]

\* sum(item["charge"]["accrued"] for item in data if item.get("checked", False))
TotalBalance(d) ==
    LET chosen == SelectSeq(d, Checked) IN
    IF \E i \in DOMAIN chosen : ~chosen[i].has_accrued
    THEN [kind |-> "exc", type |-> "KeyError", value |-> 0]
    ELSE [kind |-> "ok", type |-> "",
          value |-> SumFrom(0, [i \in DOMAIN chosen |-> chosen[i].accrued])]

\* ---- initial state -----------------------------------------------------
\* the client as constructed, the server, no call made
ClientInit ==
    /\ session_cookie \in {None} \cup Cookies
    /\ token_auth \in {None, 1}
    /\ token_verify \in {None} \cup Verifs
    /\ transaction_id = None
    /\ methods = {}
    /\ srvStrict \in BOOLEAN
    \* a strict server still honours the client's token, or has moved on
    /\ srvToken \in (IF srvStrict THEN {token_auth, token_auth + 1} ELSE {None})
    /\ stack = [t \in Tasks |-> <<>>]
    /\ ret = [t \in Tasks |-> NoRet]
    /\ req = [t \in Tasks |-> NoReq]
    /\ resp = [t \in Tasks |-> NoResp]
    /\ op = [t \in Tasks |-> ""]
    /\ entry = [t \in Tasks |-> NoHdr]
    /\ nreq = [t \in Tasks |-> 0]
    /\ after401 = [t \in Tasks |-> No401]
    /\ faults = [t \in Tasks |-> 0]
    /\ prev = [t \in Tasks |-> NoCall]

\* no config entry, no handler
HostIdle ==
    /\ config_entry = NoEntry
    /\ handler = NoHandler

Init ==
    /\ ClientInit
    /\ HostIdle
    /\ data = <<>>
    /\ total_balance = NoBalance

\* ---- calls -------------------------------------------------------------
\* bookkeeping common to every call of an operation
Begin(t, name) ==
    /\ Idle(t)
    /\ op' = [op EXCEPT ![t] = name]
    /\ entry' = [entry EXCEPT ![t] = Session]
    /\ resp' = [resp EXCEPT ![t] = NoResp]
    /\ after401' = [after401 EXCEPT ![t] = No401]
    /\ faults' = [faults EXCEPT ![t] = 0]
    /\ UNCHANGED balance_vars

CallGet(t, api) ==
    /\ Begin(t, api)
    /\ stack' = [stack EXCEPT ![t] = <<Frame("retry", "loop", api, NoHdr)>>]
    /\ ret' = [ret EXCEPT ![t] = NoRet]
    /\ req' = [req EXCEPT ![t] = NoReq]
    /\ nreq' = [nreq EXCEPT ![t] = 0]
    /\ UNCHANGED <<client, server>>

get_accounts(t) == CallGet(t, "accounts")

get_meters_info(t) == CallGet(t, "meters")

get_account_balance(t) == CallGet(t, "balance")

send_meter_reading(t) ==
    /\ Begin(t, "send")
    /\ req' = [req EXCEPT ![t] = NoReq]
    /\ nreq' = [nreq EXCEPT ![t] = 0]
    /\ IF CookieMissing(session_cookie)
       THEN /\ ret' = [ret EXCEPT ![t] = Exc("MissingSessionCookieError")]
            /\ UNCHANGED stack
       ELSE /\ ret' = [ret EXCEPT ![t] = NoRet]
            /\ stack' = [stack EXCEPT ![t] =
                  <<Frame("send_meter_reading", "wait_exec", "send", NoHdr),
                    Frame("retry", "loop", "send", CraftHeaders)>>]
    /\ UNCHANGED <<client, server>>

authenticate(t) ==
    /\ Begin(t, "authenticate")
    /\ stack' = [stack EXCEPT ![t] = <<Frame("authenticate", "start", "login", NoHdr)>>]
    /\ ret' = [ret EXCEPT ![t] = NoRet]
    /\ req' = [req EXCEPT ![t] = NoReq]
    /\ nreq' = [nreq EXCEPT ![t] = 0]
    /\ UNCHANGED <<client, server>>

twofa_authentication(t) ==
    /\ Begin(t, "twofa_authentication")
    /\ IF CookieMissing(session_cookie)
       THEN /\ ret' = [ret EXCEPT ![t] = Exc("MissingSessionCookieError")]
            /\ req' = [req EXCEPT ![t] = NoReq]
            /\ nreq' = [nreq EXCEPT ![t] = 0]
            /\ UNCHANGED stack
       ELSE /\ ret' = [ret EXCEPT ![t] = NoRet]
            /\ req' = [req EXCEPT ![t] =
                  [ep |-> "verify", hdr |-> CraftHeaders, re |-> FALSE, pending |-> TRUE]]
            /\ nreq' = [nreq EXCEPT ![t] = 1]
            /\ stack' = [stack EXCEPT ![t] =
                  <<Frame("twofa_authentication", "wait_resp", "verify", NoHdr)>>]
    /\ UNCHANGED <<client, server>>

twofa_send_email(t) ==
    /\ Begin(t, "twofa_send_email")
    /\ IF CookieMissing(session_cookie)
       THEN /\ ret' = [ret EXCEPT ![t] = Exc("MissingSessionCookieError")]
            /\ req' = [req EXCEPT ![t] = NoReq]
            /\ nreq' = [nreq EXCEPT ![t] = 0]
            /\ UNCHANGED stack
       ELSE /\ ret' = [ret EXCEPT ![t] = NoRet]
            /\ req' = [req EXCEPT ![t] =
                  [ep |-> "email", hdr |-> CraftHeaders, re |-> FALSE, pending |-> TRUE]]
            /\ nreq' = [nreq EXCEPT ![t] = 1]
            /\ stack' = [stack EXCEPT ![t] =
                  <<Frame("twofa_send_email", "wait_resp", "email", NoHdr)>>]
    /\ UNCHANGED <<client, server>>

\* ---- _retry_api_call ---------------------------------------------------
Running(t, fn, pc) == ~Idle(t) /\ Top(t).fn = fn /\ Top(t).pc = pc

\* a frame ends: its outcome goes to the frame below
Finish(t, outcome) ==
    /\ stack' = [stack EXCEPT ![t] = Pop(t)]
    /\ ret' = [ret EXCEPT ![t] = outcome]

\* headers of the next attempt: the submit-readings call passes the headers
\* its caller built, every other api_call builds its own
AttemptHeaders(f) == IF f.api = "send" THEN f.hdr ELSE CraftHeaders

\* while retries < MAX_RETRIES: api_call(...) up to its request
RetryAttempt(t) ==
    /\ Running(t, "retry", "loop")
    /\ Top(t).retries < MAX_RETRIES
    /\ LET f == Top(t) IN
       IF f.api # "send" /\ CookieMissing(session_cookie)
       THEN /\ Finish(t, Exc("MissingSessionCookieError"))
            /\ UNCHANGED <<req, nreq, after401>>
       ELSE /\ stack' = [stack EXCEPT ![t] =
                  SetTop(t, [f EXCEPT !.pc = "wait_resp", !.att = Inc(@)])]
            /\ req' = [req EXCEPT ![t] =
                  [ep |-> f.api, hdr |-> AttemptHeaders(f),
                   re |-> after401[t].seen, pending |-> TRUE]]
            /\ nreq' = [nreq EXCEPT ![t] = Seen(@)]
            /\ after401' = [after401 EXCEPT ![t] =
                  IF f.api = "login" /\ @.seen
                  THEN [@ EXCEPT !.logins = Seen(@)] ELSE @]
            /\ UNCHANGED ret
    /\ UNCHANGED <<client, server, resp, op, entry, prev, balance_vars, host_vars, faults>>

\* the loop ends without a result
RetryGiveUp(t) ==
    /\ Running(t, "retry", "loop")
    /\ ~(Top(t).retries < MAX_RETRIES)
    /\ Finish(t, Exc("MaxRetriesExceededError"))
    /\ UNCHANGED <<client, server, req, resp, op, entry, prev, balance_vars, host_vars, nreq, after401, faults>>

\* an executor whose 401 branch keeps the auth token
StoredAuthKeptOn401(api, cls, r, a) ==
    IF cls = "ok" /\ api = "login" THEN r.auth ELSE a

\* an executor that drops the token a login returned
StoredAuthLoginDropped(api, cls, r, a) ==
    IF cls = "reauth" THEN None ELSE a

\* _token_auth after an attempt: self._token_auth = data["auth"] of a login
\* that succeeded, self._token_auth = None of the 401 branch
StoredAuth(api, cls, r, a) ==
    IF cls = "ok" /\ api = "login" THEN r.auth
    ELSE IF cls = "reauth" THEN None
    ELSE a

\* an executor that does not sleep after the transient response to its
\* last allowed attempt
AfterTransientNoLastSleep(f) ==
    IF f.retries + 1 = MAX_RETRIES
    THEN [f EXCEPT !.pc = "loop", !.trans = @ + 1, !.retries = @ + 1]
    ELSE [f EXCEPT !.pc = "sleep", !.trans = @ + 1]

\* the executor after a status in [429, 500, 503]: asyncio.sleep begins
AfterTransient(f) == [f EXCEPT !.pc = "sleep", !.trans = @ + 1]

\* the response of an attempt arrives: the rest of api_call and the
\* except clauses of _retry_api_call.  A limited server answers one call
\* with at most budget responses that make an executor go on, and the
\* recursion of the 401 branch stops at a call stack of depth coroutines.
Respond(t, limited, budget, depth) ==
    /\ Running(t, "retry", "wait_resp")
    /\ LET f == Top(t) IN
       \E r \in Responses(f.api, req[t].hdr) :
         LET out == Perform(f.api, r)
             cls == IF out.kind = "http" THEN Classify(r.status) ELSE out.kind
         IN
         /\ cls = "reauth" => Len(stack[t]) + 2 <= depth
         /\ limited /\ cls \in {"backoff", "reauth"} => faults[t] < budget
         /\ faults' = [faults EXCEPT ![t] =
               IF limited /\ cls \in {"backoff", "reauth"} THEN @ + 1 ELSE @]
         /\ resp' = [resp EXCEPT ![t] =
               [ep |-> f.api, status |-> r.status, auth |-> r.auth, verified |-> 0,
                tid |-> r.tid, types |-> r.types, body |-> r.body, cookies |-> "",
                a0 |-> token_auth, v0 |-> token_verify, re |-> req[t].re]]
         /\ req' = [req EXCEPT ![t].pending = FALSE]
         /\ token_auth' = StoredAuth(f.api, cls, r, token_auth)
         /\ srvToken' = IF srvStrict /\ cls = "ok" /\ f.api = "login" THEN r.auth ELSE srvToken
         /\ stack' = [stack EXCEPT ![t] =
               IF cls = "backoff" THEN SetTop(t, AfterTransient(f))
               ELSE IF cls = "reauth"
               THEN Append(SetTop(t, [f EXCEPT !.pc = "wait_auth"]),
                           Frame("authenticate", "start", "login", NoHdr))
               ELSE Pop(t)]
         /\ ret' = [ret EXCEPT ![t] =
               IF cls = "ok" THEN Ok
               ELSE IF cls \in {"backoff", "reauth"} THEN @
               ELSE out.exc]
         /\ after401' = [after401 EXCEPT ![t] =
               IF cls = "reauth" /\ f.api \in DomainApis
               THEN [seen |-> TRUE, logins |-> 0, backoff |-> f.backoff] ELSE @]
    /\ UNCHANGED <<session_cookie, token_verify, transaction_id, methods,
                   srvStrict, op, entry, prev, balance_vars, host_vars, nreq>>

RetryResponse(t) == Respond(t, TRUE, MaxFaults, MaxDepth)

\* an executor whose delay grows by the initial delay after every sleep
RetryWakeLinear(t) ==
    /\ Running(t, "retry", "sleep")
    /\ stack' = [stack EXCEPT ![t] =
          SetTop(t, [Top(t) EXCEPT !.pc = "loop", !.retries = @ + 1,
                                   !.sleeps = @ + 1,
                                   !.backoff = @ + INITIAL_BACKOFF])]
    /\ UNCHANGED <<client, server, ret, req, resp, op, entry, prev, balance_vars, host_vars, nreq, after401, faults>>

\* asyncio.sleep(backoff_time) is over
RetryWake(t) ==
    /\ Running(t, "retry", "sleep")
    /\ stack' = [stack EXCEPT ![t] =
          SetTop(t, [Top(t) EXCEPT !.pc = "loop", !.retries = @ + 1,
                                   !.sleeps = @ + 1,
                                   !.backoff = @ * BACKOFF_MULTIPLIER])]
    /\ UNCHANGED <<client, server, ret, req, resp, op, entry, prev, balance_vars, host_vars, nreq, after401, faults>>

\* await self.authenticate() in the 401 branch is over
RetryAfterAuth(t) ==
    /\ Running(t, "retry", "wait_auth")
    /\ IF ret[t].kind = "ok"
       THEN /\ stack' = [stack EXCEPT ![t] = SetTop(t, [Top(t) EXCEPT !.pc = "loop"])]
            /\ ret' = [ret EXCEPT ![t] = NoRet]
       ELSE Finish(t, ret[t])
    /\ UNCHANGED <<client, server, req, resp, op, entry, prev, balance_vars, host_vars, nreq, after401, faults>>

\* ---- authenticate ------------------------------------------------------
LoginFrame == Frame("retry", "loop", "login", NoHdr)

\* authenticate() up to its first await
AuthStart(t) ==
    /\ Running(t, "authenticate", "start")
    /\ IF HasSession(session_cookie, token_auth, token_verify)
       THEN /\ Finish(t, Ok)
            /\ UNCHANGED <<req, nreq>>
       ELSE IF session_cookie = None
       THEN /\ stack' = [stack EXCEPT ![t] =
                  SetTop(t, [Top(t) EXCEPT !.pc = "wait_cookie"])]
            /\ req' = [req EXCEPT ![t] =
                  [ep |-> "cookie", hdr |-> NoHdr, re |-> after401[t].seen,
                   pending |-> TRUE]]
            /\ nreq' = [nreq EXCEPT ![t] = Seen(@)]
            /\ UNCHANGED ret
       ELSE /\ stack' = [stack EXCEPT ![t] =
                  Append(SetTop(t, [Top(t) EXCEPT !.pc = "wait_login"]), LoginFrame)]
            /\ UNCHANGED <<ret, req, nreq>>
    /\ UNCHANGED <<client, server, resp, op, entry, prev, balance_vars, host_vars, after401, faults>>

\* a client that takes whatever cookie the response carries
AnyCookieOf(r) == r.value

\* cookies_dict.get("session-cookie")
SessionCookieOf(r) == IF r.kind = "session" THEN r.value ELSE None

\* _fetch_session_cookie: the response of the cookie endpoint arrives
FetchSessionCookie(t) ==
    /\ Running(t, "authenticate", "wait_cookie")
    /\ \E r \in CookieResponses :
         /\ resp' = [resp EXCEPT ![t] =
               [NoResp EXCEPT !.ep = "cookie", !.cookies = r.kind,
                               !.a0 = token_auth, !.v0 = token_verify]]
         /\ req' = [req EXCEPT ![t].pending = FALSE]
         /\ IF r.kind = "error"
            THEN /\ Finish(t, Exc("TransportError"))
                 /\ UNCHANGED session_cookie
            ELSE IF r.kind = "empty"
            THEN /\ Finish(t, Exc("MissingSessionCookieError"))
                 /\ UNCHANGED session_cookie
            ELSE /\ session_cookie' = SessionCookieOf(r)
                 /\ stack' = [stack EXCEPT ![t] =
                       Append(SetTop(t, [Top(t) EXCEPT !.pc = "wait_login"]), LoginFrame)]
                 /\ UNCHANGED ret
    /\ UNCHANGED <<token_auth, token_verify, transaction_id, methods, server,
                   op, entry, prev, balance_vars, host_vars, nreq, after401, faults>>

\* the login executor is over: the except TwoFactorAuthRequired clause
AuthAfterLogin(t) ==
    /\ Running(t, "authenticate", "wait_login")
    /\ Finish(t, ret[t])
    /\ IF ret[t].kind = "exc" /\ ret[t].type = "TwoFactorAuthRequired"
       THEN /\ transaction_id' = ret[t].tid
            /\ methods' = ret[t].methods
       ELSE UNCHANGED <<transaction_id, methods>>
    /\ UNCHANGED <<session_cookie, token_auth, token_verify, server, req, resp,
                   op, entry, prev, balance_vars, host_vars, nreq, after401, faults>>

\* ---- send_meter_reading, twofa_authentication --------------------------
\* the executor of send_meter_reading is over: except ClientResponseError
SendAfterExec(t) ==
    /\ Running(t, "send_meter_reading", "wait_exec")
    /\ Finish(t, IF ret[t].kind = "exc" /\ ret[t].type = "ClientResponseError"
                 THEN Exc("HomeAssistantError") ELSE ret[t])
    /\ UNCHANGED <<client, server, req, resp, op, entry, prev, balance_vars, host_vars, nreq, after401, faults>>

\* twofa_authentication storing the verified token before it looks for
\* the auth token
TwofaOutcomeVerifyFirst(r, a, v) ==
    IF r.status = TransportError THEN [out |-> Exc("TransportError"), auth |-> a, verify |-> v]
    ELSE IF RaisesForStatus(r.status)
    THEN [out |-> ClientResponseError(r.status), auth |-> a, verify |-> v]
    ELSE IF r.auth = None
    THEN [out |-> Exc("RuntimeError"), auth |-> a,
          verify |-> IF r.verified = None THEN v ELSE r.verified]
    ELSE IF r.verified = None THEN [out |-> Exc("RuntimeError"), auth |-> a, verify |-> v]
    ELSE [out |-> Ok, auth |-> r.auth, verify |-> r.verified]

\* twofa_authentication storing the auth token only
TwofaOutcomeAuthOnly(r, a, v) ==
    IF r.status = TransportError THEN [out |-> Exc("TransportError"), auth |-> a, verify |-> v]
    ELSE IF RaisesForStatus(r.status)
    THEN [out |-> ClientResponseError(r.status), auth |-> a, verify |-> v]
    ELSE IF r.auth = None THEN [out |-> Exc("RuntimeError"), auth |-> a, verify |-> v]
    ELSE IF r.verified = None THEN [out |-> Exc("RuntimeError"), auth |-> a, verify |-> v]
    ELSE [out |-> Ok, auth |-> r.auth, verify |-> v]

\* twofa_authentication storing the auth token before it looks for the
\* verified token
TwofaOutcomeEarlyStore(r, a, v) ==
    IF r.status = TransportError THEN [out |-> Exc("TransportError"), auth |-> a, verify |-> v]
    ELSE IF RaisesForStatus(r.status)
    THEN [out |-> ClientResponseError(r.status), auth |-> a, verify |-> v]
    ELSE IF r.auth = None THEN [out |-> Exc("RuntimeError"), auth |-> a, verify |-> v]
    ELSE IF r.verified = None THEN [out |-> Exc("RuntimeError"), auth |-> r.auth, verify |-> v]
    ELSE [out |-> Ok, auth |-> r.auth, verify |-> r.verified]

\* what twofa_authentication does with the verification response:
\* the outcome and the two stored tokens
TwofaOutcome(r, a, v) ==
    IF r.status = TransportError THEN [out |-> Exc("TransportError"), auth |-> a, verify |-> v]
    ELSE IF RaisesForStatus(r.status)
    THEN [out |-> ClientResponseError(r.status), auth |-> a, verify |-> v]
    ELSE IF r.auth = None THEN [out |-> Exc("RuntimeError"), auth |-> a, verify |-> v]
    ELSE IF r.verified = None THEN [out |-> Exc("RuntimeError"), auth |-> a, verify |-> v]
    ELSE [out |-> Ok, auth |-> r.auth, verify |-> r.verified]

TwofaResponse(t) ==
    /\ Running(t, "twofa_authentication", "wait_resp")
    /\ \E r \in VerifyResponses :
         LET o == TwofaOutcome(r, token_auth, token_verify) IN
         /\ resp' = [resp EXCEPT ![t] =
               [ep |-> "verify", status |-> r.status, auth |-> r.auth,
                verified |-> r.verified, tid |-> 0, types |-> {},
                body |-> r.body, cookies |-> "",
                a0 |-> token_auth, v0 |-> token_verify, re |-> FALSE]]
         /\ req' = [req EXCEPT ![t].pending = FALSE]
         /\ token_auth' = o.auth
         /\ token_verify' = o.verify
         /\ srvToken' = IF srvStrict /\ o.out.kind = "ok" THEN r.auth ELSE srvToken
         /\ Finish(t, o.out)
    /\ UNCHANGED <<session_cookie, transaction_id, methods, srvStrict,
                   op, entry, prev, balance_vars, host_vars, nreq, after401, faults>>

\* a twofa_send_email that posts again after an error status
TwofaEmailResponseRetrying(t) ==
    /\ Running(t, "twofa_send_email", "wait_resp")
    /\ \E r \in EmailResponses :
         /\ resp' = [resp EXCEPT ![t] =
               [NoResp EXCEPT !.ep = "email", !.status = r.status, !.body = r.body,
                               !.a0 = token_auth, !.v0 = token_verify]]
         /\ IF r.status # TransportError /\ RaisesForStatus(r.status) /\ nreq[t] < MaxSeen
            THEN /\ nreq' = [nreq EXCEPT ![t] = Seen(@)]
                 /\ UNCHANGED <<stack, ret, req>>
            ELSE /\ req' = [req EXCEPT ![t].pending = FALSE]
                 /\ Finish(t, IF r.status = TransportError THEN Exc("TransportError")
                              ELSE IF RaisesForStatus(r.status)
                              THEN ClientResponseError(r.status)
                              ELSE Ok)
                 /\ UNCHANGED nreq
    /\ UNCHANGED <<client, server, op, entry, prev, balance_vars, host_vars, after401, faults>>

\* twofa_send_email: the response arrives, resp.raise_for_status()
TwofaEmailResponse(t) ==
    /\ Running(t, "twofa_send_email", "wait_resp")
    /\ \E r \in EmailResponses :
         /\ resp' = [resp EXCEPT ![t] =
               [NoResp EXCEPT !.ep = "email", !.status = r.status, !.body = r.body,
                               !.a0 = token_auth, !.v0 = token_verify]]
         /\ req' = [req EXCEPT ![t].pending = FALSE]
         /\ Finish(t, IF r.status = TransportError THEN Exc("TransportError")
                      ELSE IF RaisesForStatus(r.status) THEN ClientResponseError(r.status)
                      ELSE Ok)
    /\ UNCHANGED <<client, server, op, entry, prev, balance_vars, host_vars, nreq, after401, faults>>

\* ---- specification -----------------------------------------------------
\* the calls of a client whose earlier calls are not kept
Call(t) ==
    \/ get_accounts(t) /\ UNCHANGED <<prev, host_vars>>
    \/ get_meters_info(t) /\ UNCHANGED <<prev, host_vars>>
    \/ get_account_balance(t) /\ UNCHANGED <<prev, host_vars>>
    \/ send_meter_reading(t) /\ UNCHANGED <<prev, host_vars>>
    \/ authenticate(t) /\ UNCHANGED <<prev, host_vars>>
    \/ twofa_send_email(t) /\ UNCHANGED <<prev, host_vars>>
    \/ twofa_authentication(t) /\ UNCHANGED <<prev, host_vars>>

Step(t) ==
    \/ RetryAttempt(t)
    \/ RetryGiveUp(t)
    \/ RetryResponse(t)
    \/ RetryWake(t)
    \/ RetryAfterAuth(t)
    \/ AuthStart(t)
    \/ FetchSessionCookie(t)
    \/ AuthAfterLogin(t)
    \/ SendAfterExec(t)
    \/ TwofaEmailResponse(t)
    \/ TwofaResponse(t)

Next == \E t \in Tasks : Call(t) \/ Step(t)

Spec == Init /\ [][Next]_vars

\* The same program when the server is not limited in the number of
\* responses that make an executor go on.  Every pending request is
\* answered, every sleep ends and every coroutine that can run does.
LiveInit ==
    /\ Init
    /\ ~srvStrict
    /\ session_cookie # None

RetryResponseAny(t) == Respond(t, FALSE, 0, MaxDepth)

LiveStep(t) ==
    \/ RetryAttempt(t)
    \/ RetryGiveUp(t)
    \/ RetryResponseAny(t)
    \/ RetryWake(t)
    \/ RetryAfterAuth(t)
    \/ AuthStart(t)
    \/ AuthAfterLogin(t)
    \/ SendAfterExec(t)

LiveCall(t) ==
    \/ get_accounts(t) /\ UNCHANGED <<prev, host_vars>>
    \/ send_meter_reading(t) /\ UNCHANGED <<prev, host_vars>>
    \/ authenticate(t) /\ UNCHANGED <<prev, host_vars>>

LiveNext == \E t \in Tasks : LiveCall(t) \/ LiveStep(t)

LiveSpec == LiveInit /\ [][LiveNext]_vars /\ \A t \in Tasks : WF_vars(LiveStep(t))

\* a call begins: the one before it is kept
Remember(t) ==
    prev' = [prev EXCEPT ![t] = [op |-> op[t], ret |-> ret[t], entry |-> entry[t]]]

\* The login flow of one client with the call before the current one kept:
\* authenticate(), the verification of a code, and the first data request.
\* The server answers a call with at most MaxFlowFaults responses that make
\* an executor go on, so that no executor runs out of retries.
FlowInit ==
    /\ Init
    /\ ~srvStrict

FlowCall(t) ==
    \/ authenticate(t) /\ Remember(t) /\ UNCHANGED host_vars
    \/ twofa_authentication(t) /\ Remember(t) /\ UNCHANGED host_vars
    \/ get_accounts(t) /\ Remember(t) /\ UNCHANGED host_vars

FlowResponse(t) == Respond(t, TRUE, MaxFlowFaults, MaxDepth)

FlowStep(t) ==
    \/ RetryAttempt(t)
    \/ FlowResponse(t)
    \/ RetryWake(t)
    \/ RetryAfterAuth(t)
    \/ AuthStart(t)
    \/ FetchSessionCookie(t)
    \/ AuthAfterLogin(t)
    \/ TwofaResponse(t)

FlowNext == \E t \in Tasks : FlowCall(t) \/ FlowStep(t)

FlowSpec == FlowInit /\ [][FlowNext]_vars

\* get_account_balance once its executor has returned the entries of the
\* response: the sum and the value returned.
BalanceInit ==
    /\ ClientInit
    /\ HostIdle
    /\ ~srvStrict
    /\ HasSession(session_cookie, token_auth, token_verify)
    /\ data \in BalanceLists
    /\ total_balance = NoBalance

ComputeTotalBalance ==
    /\ total_balance = NoBalance
    /\ total_balance' = TotalBalance(data)
    /\ UNCHANGED <<client, server, stack, ret, req, resp, op, entry, prev, nreq,
                   after401, faults, data, host_vars>>

BalanceNext == ComputeTotalBalance

BalanceSpec == BalanceInit /\ [][BalanceNext]_vars

\* ---- EircDataUpdateCoordinator, async_send_meter_reading -----------------
\* everything but the config entry and the handler
program == <<client, server, stack, ret, req, resp, op, entry, nreq, after401,
             faults, prev, balance_vars>>

\* EircDataUpdateCoordinator.__init__: the client takes the session of the
\* config entry
CoordinatorInit ==
    /\ handler.pc = "new"
    /\ IF config_entry.saved
       THEN /\ session_cookie' = config_entry.cookie
            /\ token_auth' = config_entry.auth
            /\ token_verify' = config_entry.verify
       ELSE UNCHANGED <<session_cookie, token_auth, token_verify>>
    /\ handler' = [handler EXCEPT !.pc = "idle"]
    /\ UNCHANGED <<transaction_id, methods, server, stack, ret, req, resp, op, entry,
                   nreq, after401, faults, prev, balance_vars, config_entry>>

\* client.get_token_state()
TokenState == Entry(session_cookie, token_auth, token_verify)

\* a coordinator that saves nothing
SavedEntryNever(e, s) == e

\* _async_save_tokens: config_entry.data afterwards
SavedEntry(e, s) ==
    IF s.cookie # e.cookie \/ s.auth # e.auth \/ s.verify # e.verify THEN s ELSE e

\* the exception _async_update_data raises for a failure of the client
UpdateFailure(r) ==
    IF r.type = "TwoFactorAuthRequired" THEN "ConfigEntryAuthFailed" ELSE "UpdateFailed"

\* balance_data["balance"], balance_data["bill_id"]: get_account_balance
\* returns a number, which has no items
BalanceFields(r) == IF r = Ok THEN Exc("TypeError") ELSE r

\* _async_update_data up to its first await
async_update_data(t) ==
    /\ handler.pc \in {"idle", "done"}
    /\ get_accounts(t)
    /\ handler' = [NoHandler EXCEPT !.kind = "update", !.pc = "accounts", !.s0 = Session]
    /\ UNCHANGED <<prev, config_entry>>

\* get_accounts is over
UpdateAfterAccounts(t) ==
    /\ handler.kind = "update" /\ handler.pc = "accounts" /\ Idle(t)
    /\ IF ret[t] = Ok
       THEN \E as \in AccountLists :
               handler' = [handler EXCEPT !.pc = "loop", !.accounts = as, !.i = 1]
       ELSE handler' = [handler EXCEPT !.pc = "done", !.out = UpdateFailure(ret[t])]
    /\ UNCHANGED <<program, config_entry>>

\* for account in accounts: up to the next await, or to the return
UpdateLoop(t) ==
    /\ handler.kind = "update" /\ handler.pc = "loop" /\ Idle(t)
    /\ IF handler.i > Len(handler.accounts)
       THEN /\ config_entry' = SavedEntry(config_entry, TokenState)
            /\ handler' = [handler EXCEPT !.pc = "done", !.out = "data"]
            /\ UNCHANGED program
       ELSE IF ~handler.accounts[handler.i].confirmed
       THEN /\ handler' = [handler EXCEPT !.i = @ + 1]
            /\ UNCHANGED <<program, config_entry>>
       ELSE /\ get_meters_info(t)
            /\ handler' = [handler EXCEPT !.pc = "meters",
                              !.fetched = @ \cup {handler.accounts[handler.i].id}]
            /\ UNCHANGED <<prev, config_entry>>

\* the account's fetch has failed: except TwoFactorAuthRequired, except Exception
UpdateAccountFailed(r) ==
    IF r.type = "TwoFactorAuthRequired"
    THEN [handler EXCEPT !.pc = "done", !.out = "ConfigEntryAuthFailed"]
    ELSE [handler EXCEPT !.pc = "loop", !.i = @ + 1,
                         !.failed = @ \cup {handler.accounts[handler.i].id}]

\* get_meters_info is over
UpdateAfterMeters(t) ==
    /\ handler.kind = "update" /\ handler.pc = "meters" /\ Idle(t)
    /\ IF ret[t] = Ok
       THEN /\ get_account_balance(t)
            /\ handler' = [handler EXCEPT !.pc = "balance"]
            /\ UNCHANGED <<prev, config_entry>>
       ELSE /\ handler' = UpdateAccountFailed(ret[t])
            /\ UNCHANGED <<program, config_entry>>

\* get_account_balance is over
UpdateAfterBalance(t) ==
    /\ handler.kind = "update" /\ handler.pc = "balance" /\ Idle(t)
    /\ LET r == BalanceFields(ret[t])
           h == [handler EXCEPT !.returned =
                    IF ret[t] = Ok THEN @ \cup {handler.accounts[handler.i].id} ELSE @]
       IN
       handler' = IF r = Ok
                  THEN [h EXCEPT !.pc = "loop", !.i = @ + 1,
                            !.processed = @ \cup {handler.accounts[handler.i].id}]
                  ELSE [UpdateAccountFailed(r) EXCEPT !.returned = h.returned]
    /\ UNCHANGED <<program, config_entry>>

\* a service that checks the scale ids only
ValidReadingsAnyValue(m, rs) ==
    /\ m.found
    /\ \A k \in DOMAIN rs : m.previous[rs[k].scale_id] # NoReading

\* the checks of async_send_meter_reading: the meter is in the account,
\* every scale_id is a scale of it, no value is below the previous reading
ValidReadings(m, rs) ==
    /\ m.found
    /\ \A k \in DOMAIN rs :
          /\ m.previous[rs[k].scale_id] # NoReading
          /\ ~(rs[k].value < m.previous[rs[k].scale_id])

\* async_send_meter_reading up to its first await
async_send_meter_reading(t) ==
    /\ handler.pc \in {"idle", "done"}
    /\ get_meters_info(t)
    /\ \E rs \in ReadingBatches :
         handler' = [NoHandler EXCEPT !.kind = "service", !.pc = "meters",
                                      !.readings = rs, !.s0 = Session]
    /\ UNCHANGED <<prev, config_entry>>

\* get_meters_info of the service is over
ServiceAfterMeters(t) ==
    /\ handler.kind = "service" /\ handler.pc = "meters" /\ Idle(t)
    /\ IF ret[t] # Ok
       THEN /\ handler' = [handler EXCEPT !.pc = "done", !.out = "HomeAssistantError"]
            /\ UNCHANGED <<program, config_entry>>
       ELSE \E m \in MeterInfos :
               IF ValidReadings(m, handler.readings)
               THEN /\ send_meter_reading(t)
                    /\ handler' = [handler EXCEPT !.pc = "send", !.meter = m]
                    /\ UNCHANGED <<prev, config_entry>>
               ELSE /\ handler' = [handler EXCEPT !.pc = "done", !.meter = m,
                                                  !.out = "HomeAssistantError"]
                    /\ UNCHANGED <<program, config_entry>>

\* client.send_meter_reading is over
ServiceAfterSend(t) ==
    /\ handler.kind = "service" /\ handler.pc = "send" /\ Idle(t)
    /\ handler' = [handler EXCEPT !.pc = "done",
                      !.out = IF ret[t] = Ok THEN "sent" ELSE "HomeAssistantError"]
    /\ UNCHANGED <<program, config_entry>>

\* The update cycles of the coordinator of a config entry.  The
\* entry holds no session, or the session of a finished login.  The server
\* answers a call with at most MaxUpdateFaults responses that make an
\* executor go on, and the call stack holds MaxUpdateDepth coroutines:
\* enough for a 401 of a data request followed by a 401 of the login
\* request of its recovery.  No cookie is fetched: the coordinator does not call
\* authenticate(), and the authenticate() of a 401 recovery runs with the
\* cookie the request was sent with.
PersistedEntries == {NoEntry} \cup {Entry(c, 1, v) : c \in Cookies, v \in {None} \cup Verifs}

HostInit ==
    /\ ClientInit
    /\ session_cookie = None /\ token_auth = None /\ token_verify = None
    /\ ~srvStrict
    /\ data = <<>>
    /\ total_balance = NoBalance
    /\ config_entry \in PersistedEntries
    /\ handler = [NoHandler EXCEPT !.pc = "new"]

UpdateResponse(t) == Respond(t, TRUE, MaxUpdateFaults, MaxUpdateDepth)

UpdateStep(t) ==
    \/ RetryAttempt(t)
    \/ UpdateResponse(t)
    \/ RetryWake(t)
    \/ RetryAfterAuth(t)
    \/ AuthStart(t)
    \/ AuthAfterLogin(t)

UpdateNext ==
    \/ CoordinatorInit
    \/ \E t \in Tasks :
          \/ async_update_data(t)
          \/ UpdateAfterAccounts(t)
          \/ UpdateLoop(t)
          \/ UpdateAfterMeters(t)
          \/ UpdateAfterBalance(t)
          \/ UpdateStep(t)

UpdateSpec == HostInit /\ [][UpdateNext]_vars

\* The service on the client of the coordinator.
ServiceStep(t) ==
    \/ RetryAttempt(t)
    \/ FlowResponse(t)
    \/ RetryWake(t)
    \/ RetryAfterAuth(t)
    \/ AuthStart(t)
    \/ AuthAfterLogin(t)
    \/ SendAfterExec(t)

ServiceNext ==
    \/ CoordinatorInit
    \/ \E t \in Tasks :
          \/ async_send_meter_reading(t)
          \/ ServiceAfterMeters(t)
          \/ ServiceAfterSend(t)
          \/ ServiceStep(t)

ServiceSpec == HostInit /\ [][ServiceNext]_vars

\* ---- EIRCConfigFlow -------------------------------------------------------
\* the flow ends: async_create_entry, async_update_entry or async_abort
FlowEnd(h, result) == [h EXCEPT !.pc = "done", !.out = result]

\* build_account_options(self._accounts): the confirmed accounts
AccountOptions(as) == {as[k].id : k \in {j \in DOMAIN as : as[j].confirmed}}

\* the accounts are fetched: _update_reauth_entry of a reauth flow (found:
\* the entry still exists), async_step_account without input otherwise
FlowListed(h, as, found) ==
    LET g == [h EXCEPT !.accounts = as, !.listed = TRUE] IN
    IF h.source = "reauth"
    THEN FlowEnd(g, IF found THEN "reauth_successful" ELSE "entry_not_found")
    ELSE IF AccountOptions(as) = {} THEN FlowEnd(g, "no_valid_accounts")
    ELSE [g EXCEPT !.pc = "account_form"]

\* async_step_user with input: _authenticate creates the client
FlowSubmitUser ==
    /\ handler.kind = "flow" /\ handler.pc = "user_form"
    /\ session_cookie' = None /\ token_auth' = None /\ token_verify' = None
    /\ transaction_id' = None /\ methods' = {}
    /\ handler' = [handler EXCEPT !.pc = "client", !.authed = "", !.listed = FALSE,
                                  !.accounts = <<>>]
    /\ UNCHANGED <<server, stack, ret, req, resp, op, entry, nreq, after401, faults,
                   prev, balance_vars, config_entry>>

\* _authenticate: await self._client.authenticate()
FlowAuthenticate(t) ==
    /\ handler.kind = "flow" /\ handler.pc = "client"
    /\ authenticate(t)
    /\ handler' = [handler EXCEPT !.pc = "authenticate"]
    /\ UNCHANGED <<prev, config_entry>>

\* _handle_2fa_required, or the user form with an error
FlowUserFailed(t) ==
    IF ret[t].type = "TwoFactorAuthRequired"
    THEN IF "EMAIL" \notin ret[t].methods
         THEN /\ handler' = FlowEnd([handler EXCEPT !.authed = "", !.tid = ret[t].tid],
                                    "2fa_method_not_supported")
              /\ UNCHANGED <<program, config_entry>>
         ELSE /\ twofa_send_email(t)
              /\ handler' = [handler EXCEPT !.pc = "email", !.authed = "",
                                !.tid = ret[t].tid, !.emails = @ + 1,
                                !.email_tid = ret[t].tid]
              /\ UNCHANGED <<prev, config_entry>>
    ELSE /\ handler' = [handler EXCEPT !.pc = "user_form", !.authed = "",
                                       !.errors = "auth_error"]
         /\ UNCHANGED <<program, config_entry>>

\* authenticate() of the user step is over
FlowAfterAuthenticate(t) ==
    /\ handler.kind = "flow" /\ handler.pc = "authenticate" /\ Idle(t)
    /\ IF ret[t] = Ok
       THEN /\ get_accounts(t)
            /\ handler' = [handler EXCEPT !.pc = "accounts", !.authed = "login"]
            /\ UNCHANGED <<prev, config_entry>>
       ELSE FlowUserFailed(t)

\* the session of the client goes to the entry when the flow ends with one
FlowEntry(h) ==
    IF h.out \in {"create_entry", "reauth_successful"}
    THEN Entry(session_cookie, token_auth, token_verify)
    ELSE config_entry

\* get_accounts() of the user step is over
FlowAfterAccounts(t) ==
    /\ handler.kind = "flow" /\ handler.pc = "accounts" /\ Idle(t)
    /\ IF ret[t] = Ok
       THEN /\ \E as \in AccountLists, found \in BOOLEAN :
                 /\ handler' = FlowListed(handler, as, found)
                 /\ config_entry' = FlowEntry(handler')
            /\ UNCHANGED program
       ELSE FlowUserFailed(t)

\* twofa_send_email is over
FlowAfterEmail(t) ==
    /\ handler.kind = "flow" /\ handler.pc = "email" /\ Idle(t)
    /\ handler' = IF ret[t] = Ok THEN [handler EXCEPT !.pc = "2fa_form", !.errors = ""]
                  ELSE FlowEnd(handler, "2fa_send_failed")
    /\ UNCHANGED <<program, config_entry>>

\* async_step_2fa with a code: twofa_authentication(self._transaction_id, code)
FlowSubmitCode(t) ==
    /\ handler.kind = "flow" /\ handler.pc = "2fa_form"
    /\ twofa_authentication(t)
    /\ handler' = [handler EXCEPT !.pc = "verify", !.codes = Seen(@),
                                  !.code_tid = handler.tid]
    /\ UNCHANGED <<prev, config_entry>>

\* a 2fa step that asks for another email when the code is rejected
FlowAfterVerifyResend(t) ==
    /\ handler.kind = "flow" /\ handler.pc = "verify" /\ Idle(t)
    /\ IF ret[t] = Ok
       THEN /\ get_accounts(t)
            /\ handler' = [handler EXCEPT !.pc = "accounts2", !.authed = "code"]
            /\ UNCHANGED <<prev, config_entry>>
       ELSE /\ twofa_send_email(t)
            /\ handler' = [handler EXCEPT !.pc = "email", !.emails = @ + 1,
                                          !.errors = "invalid_code"]
            /\ UNCHANGED <<prev, config_entry>>

\* a 2fa step that goes on to the accounts whatever the verification gave
FlowAfterVerifyAnyCode(t) ==
    /\ handler.kind = "flow" /\ handler.pc = "verify" /\ Idle(t)
    /\ get_accounts(t)
    /\ handler' = [handler EXCEPT !.pc = "accounts2", !.authed = "code"]
    /\ UNCHANGED <<prev, config_entry>>

\* twofa_authentication is over
FlowAfterVerify(t) ==
    /\ handler.kind = "flow" /\ handler.pc = "verify" /\ Idle(t)
    /\ IF ret[t] = Ok
       THEN /\ get_accounts(t)
            /\ handler' = [handler EXCEPT !.pc = "accounts2", !.authed = "code"]
            /\ UNCHANGED <<prev, config_entry>>
       ELSE /\ handler' = [handler EXCEPT !.pc = "2fa_form", !.errors = "invalid_code"]
            /\ UNCHANGED <<program, config_entry>>

\* get_accounts() of the 2fa step is over
FlowAfterAccounts2(t) ==
    /\ handler.kind = "flow" /\ handler.pc = "accounts2" /\ Idle(t)
    /\ IF ret[t] = Ok
       THEN \E as \in AccountLists, found \in BOOLEAN :
               /\ handler' = FlowListed(handler, as, found)
               /\ config_entry' = FlowEntry(handler')
       ELSE /\ handler' = [handler EXCEPT !.pc = "2fa_form", !.authed = "",
                                          !.errors = "invalid_code"]
            /\ UNCHANGED config_entry
    /\ UNCHANGED program

\* async_step_account with the selection: async_create_entry
FlowSubmitAccounts ==
    /\ handler.kind = "flow" /\ handler.pc = "account_form"
    /\ handler' = FlowEnd(handler, "create_entry")
    /\ config_entry' = Entry(session_cookie, token_auth, token_verify)
    /\ UNCHANGED program

\* One config flow, started by the user or for the re-authentication of an
\* entry.  The server answers a call with at most MaxFlowFaults responses
\* that make an executor go on.
ConfigFlowInit ==
    /\ ClientInit
    /\ session_cookie = None /\ token_auth = None /\ token_verify = None
    /\ ~srvStrict
    /\ data = <<>>
    /\ total_balance = NoBalance
    /\ \E src \in {"user", "reauth"} :
         /\ handler = [NoHandler EXCEPT !.kind = "flow", !.pc = "user_form", !.source = src]
         /\ config_entry \in (IF src = "user" THEN {NoEntry} ELSE PersistedEntries \ {NoEntry})

ConfigFlowStep(t) ==
    \/ RetryAttempt(t)
    \/ FlowResponse(t)
    \/ RetryWake(t)
    \/ RetryAfterAuth(t)
    \/ AuthStart(t)
    \/ FetchSessionCookie(t)
    \/ AuthAfterLogin(t)
    \/ TwofaEmailResponse(t)
    \/ TwofaResponse(t)

ConfigFlowNext ==
    \/ FlowSubmitUser
    \/ FlowSubmitAccounts
    \/ \E t \in Tasks :
          \/ FlowAuthenticate(t)
          \/ FlowAfterAuthenticate(t)
          \/ FlowAfterAccounts(t)
          \/ FlowAfterEmail(t)
          \/ FlowSubmitCode(t)
          \/ FlowAfterVerify(t)
          \/ FlowAfterAccounts2(t)
          \/ ConfigFlowStep(t)

ConfigFlowSpec == ConfigFlowInit /\ [][ConfigFlowNext]_vars

\* ---- two operations on one client -----------------------------------------
\* Two tasks of the event loop use the client of the coordinator: the poll
\* and a service call.  The server checks tokens; the client holds a full
\* session whose auth token the server still honours or has dropped.  A task
\* runs until it awaits a response; the other task runs only then.
Pair == {1, 2}

Suspended(t) == Idle(t) \/ Running(t, "retry", "wait_resp")

ConcInit ==
    /\ session_cookie \in Cookies
    /\ token_auth = 1
    /\ token_verify \in Verifs
    /\ transaction_id = None
    /\ methods = {}
    /\ srvStrict = TRUE
    /\ srvToken \in {token_auth, token_auth + 1}
    /\ stack = [t \in Pair |-> <<>>]
    /\ ret = [t \in Pair |-> NoRet]
    /\ req = [t \in Pair |-> NoReq]
    /\ resp = [t \in Pair |-> NoResp]
    /\ op = [t \in Pair |-> ""]
    /\ entry = [t \in Pair |-> NoHdr]
    /\ nreq = [t \in Pair |-> 0]
    /\ after401 = [t \in Pair |-> No401]
    /\ faults = [t \in Pair |-> 0]
    /\ prev = [t \in Pair |-> NoCall]
    /\ data = <<>>
    /\ total_balance = NoBalance
    /\ HostIdle

\* every other task awaits a response or runs nothing
Alone(t) == \A u \in Pair \ {t} : Suspended(u)

ConcCall(t) ==
    \/ get_accounts(t) /\ Alone(t) /\ UNCHANGED <<prev, host_vars>>
    \/ get_meters_info(t) /\ Alone(t) /\ UNCHANGED <<prev, host_vars>>
    \/ send_meter_reading(t) /\ Alone(t) /\ UNCHANGED <<prev, host_vars>>

ConcStep(t) ==
    \/ RetryAttempt(t) /\ Alone(t)
    \/ FlowResponse(t) /\ Alone(t)
    \/ RetryAfterAuth(t) /\ Alone(t)
    \/ AuthStart(t) /\ Alone(t)
    \/ AuthAfterLogin(t) /\ Alone(t)
    \/ SendAfterExec(t) /\ Alone(t)

ConcNext == \E t \in Pair : ConcCall(t) \/ ConcStep(t)

ConcSpec == ConcInit /\ [][ConcNext]_vars

\* A domain operation on a client with a session, and the re-login of its
\* 401 recovery: the server answers the call with at most MaxReloginFaults
\* responses that make an executor go on, enough for a 401 followed by the
\* MAX_RETRIES transient answers a login executor takes before it gives up.
ReloginInit ==
    /\ Init
    /\ ~srvStrict
    /\ session_cookie # None /\ token_auth # None

ReloginCall(t) ==
    \/ get_accounts(t) /\ UNCHANGED <<prev, host_vars>>
    \/ send_meter_reading(t) /\ UNCHANGED <<prev, host_vars>>

ReloginResponse(t) == Respond(t, TRUE, MaxReloginFaults, MaxReloginDepth)

ReloginStep(t) ==
    \/ RetryAttempt(t)
    \/ RetryGiveUp(t)
    \/ ReloginResponse(t)
    \/ RetryWake(t)
    \/ RetryAfterAuth(t)
    \/ AuthStart(t)
    \/ AuthAfterLogin(t)
    \/ SendAfterExec(t)

ReloginNext == \E t \in Tasks : ReloginCall(t) \/ ReloginStep(t)

ReloginSpec == ReloginInit /\ [][ReloginNext]_vars

\* ---- claims ------------------------------------------------------------
SpecTransient == {400, 429, 500, 503}

\* C1: a domain operation answered with a status in {400, 429, 500, 503}
\* does not fail on that response: the executor goes on (sleep, next
\* attempt), and the only error it can end with is MaxRetriesExceededError.
C1_TransientRetried ==
    \A t \in Tasks :
        (resp[t].ep \in DomainApis /\ resp[t].status \in SpecTransient)
            => (ret[t].kind # "exc" \/ ret[t].type = "MaxRetriesExceededError")

\* C2: with a server that accepts the re-issued request (a strict server),
\* a domain operation of an authenticated client answered 401 sends exactly one login request before
\* the retry, the 401 leaves the backoff delay as it was, the retry is
\* answered with success and the operation returns its result.
C2_ReauthThenSuccess ==
    \A t \in Tasks :
        (srvStrict /\ op[t] \in DomainApis /\ entry[t].auth # None /\ after401[t].seen) =>
            /\ (req[t].ep \in DomainApis /\ req[t].re /\ req[t].pending)
                   => (after401[t].logins = 1 /\ Top(t).backoff = after401[t].backoff)
            /\ (resp[t].ep \in DomainApis /\ resp[t].re) => resp[t].status \in {200, 204}
            /\ Idle(t) => ret[t] = Ok

\* C3: one execution of the retry executor requests its endpoint at most
\* MAX_RETRIES times, whatever mix of 401 and transient statuses it gets.
C3_AtMostFiveAttempts ==
    \A t \in Tasks : \A i \in DOMAIN stack[t] :
        stack[t][i].fn = "retry" => stack[t][i].att <= MAX_RETRIES

\* C4: every call of a domain operation or of authenticate() terminates,
\* given that every request is answered and every sleep ends.
C4_Terminates == \A t \in Tasks : (~Idle(t)) ~> Idle(t)

\* C5: a 401 answered to the login request is not handled by another login:
\* it ends the login executor with that HTTP error.
C5_LoginUnauthorizedPropagates ==
    \A t \in Tasks :
        (resp[t].ep = "login" /\ resp[t].status = 401)
            => (ret[t].kind = "exc" /\ ret[t].type = "ClientResponseError"
                /\ ret[t].status = 401)

\* C6: every attempt of a domain operation carries headers built from the
\* session state current at that attempt.
C6_HeadersCurrent ==
    \A t \in Tasks :
        (req[t].pending /\ req[t].ep \in DomainApis)
            => req[t].hdr = Hdr(session_cookie, token_auth, token_verify)

\* C7: a domain operation called without a session cookie fetches one
\* first: it never ends without having sent a request.
C7_CookieFetchedOnDemand ==
    \A t \in Tasks :
        (op[t] \in DomainApis /\ entry[t].cookie = None /\ Idle(t)) => nreq[t] >= 1

\* C8 as stated: authenticate() called with auth_token and verify_token set
\* sends no request and leaves the session state as it was, whether or not
\* the session cookie is present.
C8_NoopWithBothTokens ==
    \A t \in Tasks :
        (op[t] = "authenticate" /\ entry[t].auth # None /\ entry[t].verify # None)
            => (nreq[t] = 0 /\ Session = entry[t])

\* C8 amended: authenticate() called with session_cookie, auth_token and
\* verify_token all set sends no request, leaves the three as they were
\* and returns normally.
C8_NoopWithFullSession ==
    \A t \in Tasks :
        (op[t] = "authenticate" /\ entry[t].cookie # None
         /\ entry[t].auth # None /\ entry[t].verify # None)
            => /\ nreq[t] = 0
               /\ Session = entry[t]
               /\ req[t] = NoReq
               /\ Idle(t) => ret[t] = Ok

C8_Witness ==
    \E t \in Tasks :
        /\ op[t] = "authenticate" /\ Idle(t) /\ ret[t] = Ok
        /\ entry[t].cookie # None /\ entry[t].auth # None /\ entry[t].verify # None

\* C9: a login answered 424 with a transaction id ends authenticate() at
\* once: with TwoFactorAuthRequired carrying that transaction id and those
\* methods when EMAIL is among them, with another error when it is not;
\* no login request follows and auth_token and verify_token stay as they
\* were when the response arrived.
C9_VerificationRequired ==
    \A t \in Tasks :
        (resp[t].ep = "login" /\ resp[t].status = 424 /\ resp[t].tid # None) =>
            /\ ~req[t].pending
            /\ ret[t].kind = "exc"
            /\ "EMAIL" \in resp[t].types
                   => ret[t] = TwoFactorAuthRequired(resp[t].tid, resp[t].types)
            /\ "EMAIL" \notin resp[t].types => ret[t] = Exc("RuntimeError")
            /\ token_auth = resp[t].a0
            /\ token_verify = resp[t].v0

C9_Witness ==
    \E t \in Tasks :
        /\ Idle(t) /\ op[t] = "authenticate"
        /\ resp[t].ep = "login" /\ resp[t].status = 424
        /\ resp[t].types = {"EMAIL", "SMS"}
        /\ ret[t] = TwoFactorAuthRequired(resp[t].tid, resp[t].types)
        /\ transaction_id = resp[t].tid

Awaiting2FA(h) == h.cookie # None /\ h.auth = None /\ h.verify = None

\* C11: once authenticate() has raised TwoFactorAuthRequired and left the
\* cookie present and both tokens absent, a twofa_authentication answered
\* with an auth and a verified value stores exactly these two and returns;
\* the authenticate() called next sends no request and returns.
C11_HandshakeAuthenticates ==
    \A t \in Tasks :
        /\ (/\ op[t] = "twofa_authentication"
            /\ prev[t].op = "authenticate"
            /\ prev[t].ret.type = "TwoFactorAuthRequired"
            /\ Awaiting2FA(entry[t])
            /\ resp[t].ep = "verify" /\ resp[t].status = 200
            /\ resp[t].auth # None /\ resp[t].verified # None)
               => /\ token_auth = resp[t].auth
                  /\ token_verify = resp[t].verified
                  /\ session_cookie = entry[t].cookie
                  /\ Idle(t) /\ ret[t] = Ok
        /\ (/\ op[t] = "authenticate"
            /\ prev[t].op = "twofa_authentication"
            /\ prev[t].ret = Ok
            /\ Awaiting2FA(prev[t].entry)
            /\ transaction_id # None)
               => /\ nreq[t] = 0
                  /\ req[t] = NoReq
                  /\ Session = entry[t]
                  /\ entry[t].cookie = prev[t].entry.cookie
                  /\ Idle(t) => ret[t] = Ok

C11_Witness ==
    \E t \in Tasks :
        /\ op[t] = "authenticate" /\ Idle(t) /\ ret[t] = Ok /\ nreq[t] = 0
        /\ prev[t].op = "twofa_authentication" /\ prev[t].ret = Ok
        /\ Awaiting2FA(prev[t].entry)
        /\ transaction_id # None
        /\ token_auth = 2 /\ token_verify # None

\* C12: a login answered 2xx with an auth token in its body stores that
\* token, which is not absent, as auth_token; no TwoFactorAuthRequired is
\* raised, and an authenticate() that ends on this response returns.
C12_LoginStoresToken ==
    \A t \in Tasks :
        (/\ resp[t].ep = "login"
         /\ resp[t].status \in 200..299
         /\ resp[t].body = "json" /\ resp[t].auth # None)
            => /\ token_auth = resp[t].auth
               /\ token_auth # None
               /\ ret[t].type # "TwoFactorAuthRequired"
               /\ (Idle(t) /\ op[t] = "authenticate") => ret[t] = Ok

C12_Witness ==
    \E t \in Tasks :
        /\ op[t] = "authenticate" /\ Idle(t) /\ ret[t] = Ok
        /\ entry[t].auth = None
        /\ resp[t].ep = "login" /\ resp[t].status = 200
        /\ token_auth = resp[t].auth /\ token_auth # None

\* C13: when the cookie endpoint answers without a cookie named
\* session-cookie (no cookie at all, or cookies of other names only),
\* authenticate() raises MissingSessionCookieError, the request for the
\* cookie stays the only request of the call (no login request), and
\* session_cookie stays absent.
C13_NoCookieNoLogin ==
    \A t \in Tasks :
        (resp[t].ep = "cookie" /\ resp[t].cookies \in {"empty", "other"})
            => /\ op[t] = "authenticate"
               /\ session_cookie = None
               /\ req[t].ep = "cookie" /\ ~req[t].pending
               /\ nreq[t] = 1
               /\ ret[t].kind = "exc" => ret[t] = Exc("MissingSessionCookieError")
               /\ Idle(t) => ret[t] = Exc("MissingSessionCookieError")

C13_Witness ==
    \E t \in Tasks :
        /\ op[t] = "authenticate" /\ Idle(t)
        /\ resp[t].ep = "cookie" /\ resp[t].cookies = "other"
        /\ ret[t] = Exc("MissingSessionCookieError")
        /\ nreq[t] = 1 /\ session_cookie = None

\* C14: the first call on a client constructed with a cookie, an auth token
\* and a verify token being get_accounts, the first request of that call
\* goes to the accounts endpoint and its headers carry exactly these three
\* values; nothing is requested before it, and it is sent.
C14_SavedSessionUsed ==
    \A t \in Tasks :
        (/\ op[t] = "accounts" /\ prev[t] = NoCall
         /\ entry[t].cookie # None /\ entry[t].auth # None /\ entry[t].verify # None)
            => /\ nreq[t] = 0 => req[t] = NoReq
               /\ nreq[t] = 1 => (req[t].ep = "accounts" /\ req[t].hdr = entry[t])
               /\ Idle(t) => nreq[t] >= 1

C14_Witness ==
    \E t \in Tasks :
        /\ op[t] = "accounts" /\ prev[t] = NoCall
        /\ entry[t] = Hdr(11, 1, 21)
        /\ nreq[t] = 1 /\ req[t].pending
        /\ req[t].ep = "accounts" /\ req[t].hdr = Hdr(11, 1, 21)

\* the operations that build headers before their first request
NeedCookie == DomainApis \cup {"twofa_send_email", "twofa_authentication"}

\* C15: a request in flight while session_cookie is absent is the one to
\* the cookie endpoint, and it carries no header; every other request
\* carries the current session cookie; an operation other than
\* authenticate() called without a cookie sends nothing and ends with
\* MissingSessionCookieError.
C15_CookieOnEveryRequest ==
    \A t \in Tasks :
        /\ (req[t].pending /\ req[t].ep # "cookie")
               => (session_cookie # None /\ req[t].hdr.cookie = session_cookie)
        /\ (req[t].pending /\ session_cookie = None)
               => (req[t].ep = "cookie" /\ req[t].hdr = NoHdr)
        /\ (op[t] \in NeedCookie /\ entry[t].cookie = None)
               => /\ nreq[t] = 0 /\ req[t] = NoReq
                  /\ Idle(t) => ret[t] = Exc("MissingSessionCookieError")

C15_Witness ==
    \E t \in Tasks :
        /\ op[t] = "meters" /\ entry[t].cookie = None /\ Idle(t)
        /\ nreq[t] = 0 /\ ret[t] = Exc("MissingSessionCookieError")

\* C16: a domain operation answered with an error status outside
\* {400, 401, 429, 500, 503} fails on that attempt: the executor is gone
\* (no sleep, no login, no further request), the operation raises an error
\* for that status, and the cookie and both tokens are as they were when
\* the response arrived.
C16_OtherStatusFailsAtOnce ==
    \A t \in Tasks :
        (/\ resp[t].ep \in DomainApis
         /\ RaisesForStatus(resp[t].status)
         /\ resp[t].status \notin SpecTransient \cup {401})
            => /\ ~req[t].pending /\ req[t].ep = resp[t].ep
               /\ \A i \in DOMAIN stack[t] : stack[t][i].fn = "send_meter_reading"
               /\ ret[t] = (IF resp[t].ep = "send" /\ Idle(t)
                             THEN Exc("HomeAssistantError")
                             ELSE ClientResponseError(resp[t].status))
               /\ token_auth = resp[t].a0
               /\ token_verify = resp[t].v0
               /\ session_cookie = entry[t].cookie

C16_Witness ==
    \E t \in Tasks :
        /\ op[t] = "accounts" /\ Idle(t)
        /\ resp[t].ep = "accounts" /\ resp[t].status = 424
        /\ ret[t] = ClientResponseError(424)
        /\ after401[t].seen /\ token_auth # None

\* C17: a domain operation, submit-readings included, answered with any
\* 2xx status, 204 included, succeeds on that attempt: the executor
\* returns a result, no error is raised and no further request is sent.
C17_AnySuccessStatusSucceeds ==
    \A t \in Tasks :
        (/\ resp[t].ep \in DomainApis
         /\ resp[t].status \in 200..299
         /\ resp[t].body = "json")
            => (ret[t] = Ok /\ ~req[t].pending /\ req[t].ep = resp[t].ep)

\* the state of a 401 recovery in progress or over
Recovery ==
    \A t \in Tasks :
        /\ (resp[t].ep \in DomainApis /\ resp[t].status = 401)
               => /\ token_auth = None
                  /\ token_verify = resp[t].v0
                  /\ ~Idle(t)
                  /\ Top(t).fn = "authenticate" \/ Top(t).api = "login"
                  /\ req[t].ep \in {resp[t].ep, "login"}
        /\ after401[t].seen
               => /\ session_cookie = entry[t].cookie /\ session_cookie # None
                  /\ token_verify = entry[t].verify
                  /\ req[t].ep # "cookie"
        /\ (req[t].ep \in DomainApis /\ req[t].re /\ req[t].pending)
               => (after401[t].logins >= 1 /\ token_auth # None)
        /\ (after401[t].seen /\ Idle(t)) => ENABLED Call(t)

\* the step that takes a 401 answered to a domain operation
Unauthorized(t) ==
    /\ req[t].pending /\ ~req'[t].pending
    /\ resp'[t].ep \in DomainApis /\ resp'[t].status = 401

\* C18: the step taking a 401 answered to a domain operation clears
\* auth_token and changes no other field of the client.  From then on the
\* session cookie and the verify token stay what they were when the
\* operation was called, a login follows at once (authenticate() is
\* running, or its login request is out) and no cookie is fetched; the
\* domain request is sent again only after a login has stored a new auth
\* token.  Whatever the outcome of the recovery, the client keeps its
\* cookie and accepts the next call.
C18_UnauthorizedClearsAuthOnly ==
    /\ []Recovery
    /\ [][\A t \in Tasks : Unauthorized(t) =>
              /\ token_auth' = None
              /\ UNCHANGED <<session_cookie, token_verify, transaction_id, methods>>]_vars

\* AUTHENTICATED -> COOKIED -> AUTHENTICATED with a server that checks tokens
C18_Witness ==
    \E t \in Tasks :
        /\ op[t] \in DomainApis /\ Idle(t) /\ ret[t] = Ok
        /\ entry[t].auth # None
        /\ after401[t].seen
        /\ session_cookie = entry[t].cookie /\ token_verify = entry[t].verify
        /\ token_auth # None /\ token_auth # entry[t].auth
        /\ srvStrict

\* the sum of charge.accrued over the entries at the positions in S
RECURSIVE AccruedOver(_)
AccruedOver(S) ==
    IF S = {} THEN 0
    ELSE LET i == CHOOSE j \in S : TRUE
         IN data[i].accrued + AccruedOver(S \ {i})

\* C19: for every list of entries in which the checked ones carry
\* charge.accrued, get_account_balance returns the sum of charge.accrued
\* over the entries whose checked flag is true; entries with checked false
\* or missing count for nothing, and an empty or all-unchecked list gives 0.
C19_BalanceIsSumOfChecked ==
    (/\ total_balance # NoBalance
     /\ \A i \in DOMAIN data : data[i].checked = "true" => data[i].has_accrued)
        => /\ total_balance.kind = "ok"
           /\ total_balance.value =
                  AccruedOver({i \in DOMAIN data : data[i].checked = "true"})
           /\ (\A i \in DOMAIN data : data[i].checked # "true")
                  => total_balance.value = 0

\* the list {100, checked}, {50, unchecked}, {25, checked} gives 125
C19_Witness ==
    /\ data = <<[checked |-> "true", has_accrued |-> TRUE, accrued |-> 100],
                [checked |-> "false", has_accrued |-> TRUE, accrued |-> 50],
                [checked |-> "true", has_accrued |-> TRUE, accrued |-> 25]>>
    /\ total_balance = [kind |-> "ok", type |-> "", value |-> 125]

\* the last response of an executor made its attempt fail otherwise than
\* by an HTTP status: no response at all, a body that is not JSON where
\* JSON is read, a login response without the auth key
NonHttpFailure(t) ==
    /\ resp[t].ep \in DomainApis \cup {"login"}
    /\ \/ resp[t].status = TransportError
       \/ resp[t].body = "garbage" /\ resp[t].ep # "send"
       \/ resp[t].ep = "login" /\ resp[t].status \in 200..299 /\ resp[t].auth = None

\* C20: an attempt that fails otherwise than by an HTTP status ends its
\* executor with that error at once: no request follows, no executor
\* sleeps or loops (the frames left only pass the error on to the
\* caller), no login is started and no token is changed.
C20_NonHttpFailureNotRetried ==
    \A t \in Tasks :
        NonHttpFailure(t)
            => /\ ~req[t].pending /\ req[t].ep = resp[t].ep
               /\ ret[t].kind = "exc"
               /\ ret[t].type \in {"TransportError", "ParseError", "KeyError"}
               /\ \A i \in DOMAIN stack[t] :
                      stack[t][i].pc \in {"wait_auth", "wait_login", "wait_exec"}
               /\ token_auth = resp[t].a0
               /\ token_verify = resp[t].v0

C20_Witness ==
    \E t \in Tasks :
        /\ op[t] = "balance" /\ Idle(t)
        /\ resp[t].ep = "balance" /\ resp[t].body = "garbage"
        /\ ret[t] = Exc("ParseError")
        /\ faults[t] >= 1

\* C21: in every state of a twofa_authentication call, waiting for the
\* response or over, the auth token and the verify token are either both
\* what they were when the call began, or both the values of the response
\* of this verification; never one of each.
C21_TokenPairAtomic ==
    \A t \in Tasks :
        op[t] = "twofa_authentication"
            => \/ /\ token_auth = entry[t].auth
                  /\ token_verify = entry[t].verify
               \/ /\ resp[t].ep = "verify"
                  /\ resp[t].auth # None /\ resp[t].verified # None
                  /\ token_auth = resp[t].auth
                  /\ token_verify = resp[t].verified

C21_Witness ==
    \E t \in Tasks :
        /\ op[t] = "twofa_authentication" /\ Idle(t) /\ ret[t] = Ok
        /\ entry[t].auth = 1 /\ entry[t].verify = None
        /\ token_auth = 2 /\ token_verify = 21

Executors(t) == {i \in DOMAIN stack[t] : stack[t][i].fn = "retry"}

\* backoff_time of every executor in progress, as a function of the sleeps
\* it has finished
BackoffSchedule ==
    \A t \in Tasks : \A i \in Executors(t) :
        LET f == stack[t][i] IN
        /\ f.retries \in 0..MAX_RETRIES
        /\ f.backoff = INITIAL_BACKOFF * BACKOFF_MULTIPLIER ^ f.retries
        /\ f.pc = "sleep" => f.backoff \in {4, 8, 16, 32, 64}

\* the step in which an executor takes a 401
Takes401(t) ==
    /\ req[t].pending /\ ~req'[t].pending
    /\ resp'[t].ep \in DomainApis \cup {"login"} /\ resp'[t].status = 401

\* C24: the delay an executor sleeps after its n-th transient response is
\* INITIAL_BACKOFF * BACKOFF_MULTIPLIER^(n-1), one of 4, 8, 16, 32, 64; it
\* changes only when a sleep ends, and then grows; the step that takes a 401
\* does not sleep and leaves the delay and the count of sleeps as they were;
\* an executor that starts, at a call or inside a call, starts with the
\* initial delay.
C24_BackoffArithmetic ==
    /\ []BackoffSchedule
    /\ [][\A t \in Tasks :
            /\ \A i \in DOMAIN stack'[t] :
                  stack'[t][i].fn = "retry" =>
                     IF i \in Executors(t)
                     THEN IF stack'[t][i].backoff # stack[t][i].backoff
                          THEN /\ stack[t][i].pc = "sleep"
                               /\ stack'[t][i].retries = stack[t][i].retries + 1
                               /\ stack'[t][i].backoff > stack[t][i].backoff
                          ELSE stack'[t][i].retries = stack[t][i].retries
                     ELSE /\ stack'[t][i].retries = 0
                          /\ stack'[t][i].backoff = INITIAL_BACKOFF
            /\ Takes401(t) =>
                  LET i == Len(stack[t]) IN
                  /\ stack'[t][i].pc = "wait_auth"
                  /\ stack'[t][i].backoff = stack[t][i].backoff
                  /\ stack'[t][i].retries = stack[t][i].retries]_vars

\* a 401 between the transient responses: the fourth sleep lasts 32
C24_Witness ==
    \E t \in Tasks :
        /\ op[t] \in DomainApis /\ after401[t].seen /\ after401[t].backoff = 8
        /\ Running(t, "retry", "sleep")
        /\ Len(stack[t]) = (IF op[t] = "send" THEN 2 ELSE 1)
        /\ Top(t).retries = 3 /\ Top(t).backoff = 32

\* C26: once a twofa_authentication has succeeded the client holds no
\* challenge: the transaction id is absent and the methods are empty.
C26_ChallengeDiscarded ==
    \A t \in Tasks :
        (op[t] = "twofa_authentication" /\ Idle(t) /\ ret[t] = Ok)
            => (transaction_id = None /\ methods = {})

\* the session fields of the config entry are those of the client
Persisted ==
    /\ config_entry.cookie = session_cookie
    /\ config_entry.auth = token_auth
    /\ config_entry.verify = token_verify

\* C22: a client just constructed by the coordinator holds the session of
\* the config entry; and when an update cycle is over, with data or with an
\* error, and the session of the client is not the one the cycle began
\* with, the config entry holds the session of the client.
C22_PersistedFollowsClient ==
    /\ handler.pc = "idle" => Persisted
    /\ (handler.kind = "update" /\ handler.pc = "done" /\ Session # handler.s0)
           => Persisted

\* the re-login of a 401 recovery of a domain operation has been answered
\* with 424, a transaction id and EMAIL among the types
Relogin424(t) ==
    /\ op[t] \in DomainApis /\ after401[t].seen
    /\ resp[t].ep = "login" /\ resp[t].status = 424
    /\ resp[t].tid # None /\ "EMAIL" \in resp[t].types

\* C27: once the re-login of a 401 recovery is answered with 424 and EMAIL
\* offered, the auth token is absent, the login request stays the last
\* request of the operation, and the operation ends with
\* TwoFactorAuthRequired carrying the transaction id and the types; an
\* update cycle whose client call ended so is over with
\* ConfigEntryAuthFailed, not with data.
C27_ReloginNeeds2FA ==
    \A t \in Tasks :
        Relogin424(t)
            => /\ token_auth = None
               /\ req[t].ep = "login" /\ ~req[t].pending
               /\ \A i \in DOMAIN stack[t] : stack[t][i].pc \in {"wait_auth", "wait_login", "wait_exec"}
               /\ ret[t] = TwoFactorAuthRequired(resp[t].tid, resp[t].types)
               /\ (handler.kind = "update" /\ handler.pc \in {"loop", "done"})
                     => (handler.pc = "done" /\ handler.out = "ConfigEntryAuthFailed")

\* the confirmed accounts of the accounts response
Confirmed == {handler.accounts[k].id : k \in {j \in DOMAIN handler.accounts :
                                                 handler.accounts[j].confirmed}}

\* C29: when an update cycle is over, fetches were begun for confirmed
\* accounts only; if it returns data, a fetch was begun for every confirmed
\* account, the data holds exactly the accounts whose two fetches both
\* returned, and the session is saved; if the last client call ended with
\* TwoFactorAuthRequired, the cycle ends with ConfigEntryAuthFailed.
C29_AccountFailuresIsolated ==
    (handler.kind = "update" /\ handler.pc = "done")
        => /\ handler.fetched \subseteq Confirmed
           /\ handler.out = "data"
                 => /\ handler.fetched = Confirmed
                    /\ handler.processed = handler.returned
                    /\ Persisted
           /\ (\E t \in Tasks : ret[t].type = "TwoFactorAuthRequired")
                 => handler.out = "ConfigEntryAuthFailed"

\* the meter is in the account, and every reading of the call names a scale
\* of it and is not below that scale's previous reading
ChecksPass ==
    /\ handler.meter.found
    /\ \A k \in DOMAIN handler.readings :
          LET p == handler.meter.previous[handler.readings[k].scale_id] IN
          p # NoReading /\ handler.readings[k].value >= p

\* C28: in a service call, client.send_meter_reading is called, and a
\* submit-readings request sent, only once the meter info has been fetched
\* and the whole batch has passed the checks; a call whose batch fails a
\* check is over with an error and has submitted nothing.
C28_ValidateBeforeSubmit ==
    handler.kind = "service"
        => \A t \in Tasks :
              /\ (op[t] = "send" \/ req[t].ep = "send")
                    => (handler.pc \in {"send", "done"} /\ ChecksPass)
              /\ (handler.pc = "done" /\ ~ChecksPass)
                    => /\ handler.out = "HomeAssistantError"
                       /\ op[t] = "meters" /\ req[t].ep # "send"

\* the first reading of the batch passes, the second is below the previous
\* reading: nothing is submitted
C28_Witness ==
    \E t \in Tasks :
        /\ handler.kind = "service" /\ handler.pc = "done"
        /\ handler.out = "HomeAssistantError"
        /\ handler.readings = <<Reading(1, 10), Reading(2, 5)>>
        /\ handler.meter = [found |-> TRUE, previous |-> [s \in ScaleIds |-> 10]]
        /\ op[t] = "meters" /\ ret[t] = Ok /\ Idle(t)

\* the tasks whose login request is out
LoginsInFlight == {t \in Pair : req[t].ep = "login" /\ req[t].pending}

\* C25: at most one login request of the client is out at a time; and the
\* step taking a 401 for a request that was sent with another auth token
\* than the one the client holds now leaves that token in place.
C25_SingleReauth ==
    /\ [](Cardinality(LoginsInFlight) <= 1)
    /\ [][\A t \in Pair :
            (Unauthorized(t) /\ token_auth # None /\ req[t].hdr.auth # token_auth)
                => token_auth' = token_auth]_vars

\* the flow has ended with an entry created or updated
EntryWritten == handler.out \in {"create_entry", "reauth_successful"}

C34_SleepPerTransient ==
    \A t \in Tasks : \A i \in Executors(t) :
        LET f == stack[t][i] IN
        /\ f.trans = f.sleeps + (IF f.pc = "sleep" THEN 1 ELSE 0)
        /\ f.sleeps <= MAX_RETRIES
        /\ (f.pc = "loop" /\ ~(f.retries < MAX_RETRIES))
              => (f.sleeps = MAX_RETRIES /\ f.trans = MAX_RETRIES)

\* five transient responses, five sleeps: the executor is about to give up
C34_Witness ==
    \E t \in Tasks :
        /\ Running(t, "retry", "loop") /\ op[t] \in DomainApis
        /\ Top(t).att = MAX_RETRIES /\ Top(t).trans = MAX_RETRIES
        /\ Top(t).sleeps = MAX_RETRIES /\ Top(t).backoff = 128
        /\ resp[t].status \in {429, 500, 503}

\* the call before the current one was an authenticate() of a client
\* without verify token that returned: a plain login
PlainLogin(t) ==
    /\ prev[t].op = "authenticate" /\ prev[t].ret = Ok
    /\ prev[t].entry.verify = None

\* the step in which a login request is answered 2xx with an auth token
LoginSucceeds(t) ==
    /\ req[t].pending /\ req[t].ep = "login" /\ ~req'[t].pending
    /\ resp'[t].status \in 200..299
    /\ resp'[t].body = "json" /\ resp'[t].auth # None

\* C32: a login answered with success assigns auth_token and nothing else
\* of the session; authenticate() and the data requests leave the verify
\* token as it was, and authenticate() a cookie that was present; after a
\* plain login the client holds a cookie and an auth token and no verify
\* token; every authenticate() called in that state sends a login request
\* and ends on it, never as a no-op.
C32_PlainLoginSetsAuthOnly ==
    /\ [](\A t \in Tasks :
            /\ op[t] \in {"authenticate"} \cup DomainApis => token_verify = entry[t].verify
            /\ (op[t] = "authenticate" /\ entry[t].cookie # None)
                  => session_cookie = entry[t].cookie
            /\ PlainLogin(t)
                  => (entry[t].cookie # None /\ entry[t].auth # None /\ entry[t].verify = None)
            /\ (op[t] = "authenticate" /\ entry[t].cookie # None /\ entry[t].verify = None)
                  => /\ nreq[t] >= 1 => req[t].ep = "login"
                     /\ Idle(t) => nreq[t] >= 1)
    /\ [][\A t \in Tasks :
            LoginSucceeds(t) =>
                /\ token_auth' = resp'[t].auth
                /\ UNCHANGED <<session_cookie, token_verify, transaction_id, methods>>]_vars

\* the second authenticate() after a plain login has logged in again
C32_Witness ==
    \E t \in Tasks :
        /\ PlainLogin(t) /\ op[t] = "authenticate" /\ Idle(t) /\ ret[t] = Ok
        /\ entry[t] = Hdr(11, 1, None)
        /\ nreq[t] = 1 /\ req[t].ep = "login" /\ resp[t].status = 200
        /\ Session = Hdr(11, 2, None)

\* the login executors in progress of a domain operation: those of the
\* re-login of a 401 recovery
ReloginExecutors(t) ==
    IF op[t] \in DomainApis
    THEN {i \in Executors(t) : stack[t][i].api = "login"}
    ELSE {}

\* what the caller of the operation gets for a failure e of the re-login:
\* submit-readings wraps an HTTP error
Surfaced(t, e) ==
    IF op[t] = "send" /\ e.type = "ClientResponseError"
    THEN Exc("HomeAssistantError") ELSE e

\* the failure the last login response stands for: the gave-up of the
\* login executor after a transient status, else the error of the attempt
ReloginFailure(t) ==
    LET out == Perform("login", resp[t]) IN
    IF out.kind = "http" /\ Classify(resp[t].status) = "backoff"
    THEN Exc("MaxRetriesExceededError")
    ELSE out.exc

\* C33: the login executor of a 401 recovery has its own count of
\* attempts, at most MAX_RETRIES, and its own delays, beginning again at
\* INITIAL_BACKOFF; and once the re-login has failed, the login request
\* stays the last request of the domain operation, every coroutine of the
\* operation only passes the failure on, and the operation ends with it.
C33_ReloginOwnBudget ==
    \A t \in Tasks :
        /\ \A i \in ReloginExecutors(t) :
              LET f == stack[t][i] IN
              /\ f.att <= MAX_RETRIES
              /\ f.retries <= MAX_RETRIES
              /\ f.backoff = INITIAL_BACKOFF * BACKOFF_MULTIPLIER ^ f.retries
              /\ f.att = 0 => f.retries = 0
        /\ (op[t] \in DomainApis /\ after401[t].seen /\ ret[t].kind = "exc")
              => /\ req[t].ep = "login" => ~req[t].pending
                 /\ \A i \in DOMAIN stack[t] :
                       stack[t][i].pc \in {"wait_auth", "wait_login", "wait_exec"}
                 /\ (Idle(t) /\ req[t].ep = "login")
                       => ret[t] = Surfaced(t, ReloginFailure(t))

\* the 2fa step of a flow: its form, and the calls made with a code
TwoFaStep == {"2fa_form", "verify", "accounts2"}

\* the step in which the flow learns that the code was rejected
CodeRejected(t) ==
    /\ handler.kind = "flow" /\ handler.pc = "verify" /\ handler'.pc # "verify"
    /\ ret[t] # Ok

====
